---- MODULE Spec2Model ----
(***************************************************************************)
(* M-Pesa STK push backend (src/app.py): the token fetcher, the credential *)
(* generator, the payment initiator and the callback receiver, as a state  *)
(* machine over one worker that serves one inbound request at a time.      *)
(*                                                                         *)
(* JSON values are TLA+ strings: a JSON string is itself, every other      *)
(* value is written in angle brackets ("<None>", "<true>", "<int 0>").     *)
(* Python strings that the code inspects character by character (the phone *)
(* number) are sequences of characters.                                    *)
(***************************************************************************)
EXTENDS Integers, Sequences, FiniteSets, TLC

VARIABLES
    pc,             \* position of the worker: "idle", "token", "prepare", "post", "done"
    handler,        \* the view function serving the current request
    requests_json_error, \* exception class response.json() raises in the installed requests
    body,           \* what the inbound request carries (stkpush)
    cb,             \* what the inbound request carries (mpesa_callback)
    oauth,          \* the OAuth endpoint's answer to this invocation's GET
    access_token,   \* get_access_token's return value
    timestamp,      \* generate_mpesa_credentials()[0]
    password,       \* generate_mpesa_credentials()[1]
    payload,        \* the STK push payload
    reply,          \* the payment endpoint's answer to this invocation's POST
    item_details,   \* the flat mapping mpesa_callback projects the metadata into
    calls,          \* outbound HTTP calls issued by this invocation, in order
    log,            \* app.logger entries emitted by this invocation, in order
    response,       \* what the view function returned
    raised          \* exception that left the view function, None if none

vars == <<pc, handler, requests_json_error, body, cb, oauth, access_token, timestamp,
          password, payload, reply, item_details, calls, log, response, raised>>

-----------------------------------------------------------------------------
\* Bounds of the model.
MaxExtra == 1       \* phone strings are PhoneLen-MaxExtra .. PhoneLen+MaxExtra long
MaxAmount == 2      \* integer amounts range over -1 .. MaxAmount
MaxClock == 1       \* wall-clock seconds 0 .. MaxClock
MaxItems == 1       \* CallbackMetadata.Item lists hold up to MaxItems items

\* Program constants.
PhoneLen == 12
PrefixLen == 4
HttpErrorMin == 400
HttpErrorMax == 599

None == "<None>"
Absent == "<absent>"            \* a key the JSON object does not hold
JTrue == "<true>"
JFalse == "<false>"
JInt(n) == "<int " \o ToString(n) \o ">"

\* Static configuration, loaded once from the environment.
CONSUMER_KEY == "consumer-key"
CONSUMER_SECRET == "consumer-secret"
PASSKEY == "passkey"
BUSINESS_SHORT_CODE == "174379"
CALLBACK_URL == "https://merchant.example/api/mpesa_callback"
OAUTH_URL == "https://provider.example/oauth"
STKPUSH_URL == "https://provider.example/stkpush"
TRANSACTION_TYPE == "CustomerPayBillOnline"
ACCOUNT_REFERENCE == "account-reference"
TRANSACTION_DESC == "transaction-desc"

-----------------------------------------------------------------------------
\* Characters and the str methods the validation uses.
AsciiDigits == {"0", "1", "2", "3", "4", "5", "6", "7", "8", "9"}
UnicodeDecimals == {"ar3"}      \* ARABIC-INDIC DIGIT THREE: isdigit, and int() reads it as 3
OtherDigits == {"sup2"}         \* SUPERSCRIPT TWO: isdigit, but int() raises ValueError
NonDigits == {"a"}

\* str.isdigit(): non-empty and every character has the Unicode Digit property.
isdigit(s) ==
    /\ Len(s) > 0
    /\ \A i \in 1..Len(s) : s[i] \in AsciiDigits \cup UnicodeDecimals \cup OtherDigits

\* str.startswith(p)
startswith(s, p) == Len(s) >= Len(p) /\ SubSeq(s, 1, Len(p)) = p

\* int(s) for a string s: raises ValueError unless every character is a decimal digit.
int_raises(s) ==
    \/ Len(s) = 0
    \/ \E i \in 1..Len(s) : s[i] \notin AsciiDigits \cup UnicodeDecimals

\* int(s) where it does not raise: the decimal digits of the number
\* (a Unicode decimal digit contributes its digit value).
DigitValue(c) == IF c = "ar3" THEN "3" ELSE c
int(s) == [i \in 1..Len(s) |-> DigitValue(s[i])]

Prefix2547 == <<"2", "5", "4", "7">>
Prefix2541 == <<"2", "5", "4", "1">>

-----------------------------------------------------------------------------
\* Inbound values of POST /api/stkpush.

\* data.get('phoneNumber'): absent/null, a JSON number, or a JSON string.
PhoneNone == [t |-> "none", s |-> <<>>]
PhoneInt == [t |-> "int", s |-> <<>>]          \* e.g. the number 254712345678
PhoneStr(s) == [t |-> "str", s |-> s]

Prefixes == {Prefix2547, Prefix2541, <<"2", "5", "4", "0">>, <<"0", "7", "1", "2">>}
Fill(n, last) == [i \in 1..n |-> IF i = n THEN last ELSE "5"]
PhoneStrings ==
    {<<>>, Prefix2547} \cup
    {p \o Fill(n, c) : p \in Prefixes,
                       n \in (PhoneLen - PrefixLen - MaxExtra)..(PhoneLen - PrefixLen + MaxExtra),
                       c \in {"5", "a", "ar3", "sup2"}}
Phones == {PhoneNone, PhoneInt} \cup {PhoneStr(s) : s \in PhoneStrings}

\* data.get('amount'): v is the integer itself ("int"), 1/0 for true/false ("bool"),
\* twice the number ("float": 3 is 1.5, 2 is 1.0), and for "str" 0 is the empty
\* string and n > 0 the decimal text of n.
AmountNone == [t |-> "none", v |-> 0]
Amounts ==
    {AmountNone}
    \cup {[t |-> "int", v |-> n] : n \in -1..MaxAmount}
    \cup {[t |-> "bool", v |-> n] : n \in {0, 1}}
    \cup {[t |-> "float", v |-> n] : n \in {-1, 0, 2, 3}}
    \cup {[t |-> "str", v |-> n] : n \in {0, 100}}

\* request.get_json(): raises (not JSON / wrong content type), or yields None
\* (the body "null"), a list, or a dict.
NoBody == [kind |-> "none", phoneNumber |-> PhoneNone, amount |-> AmountNone]
Bodies ==
    {[kind |-> k, phoneNumber |-> PhoneNone, amount |-> AmountNone] :
        k \in {"notjson", "null", "array"}}
    \cup {[kind |-> "object", phoneNumber |-> p, amount |-> a] : p \in Phones, a \in Amounts}

\* Python truthiness of the two fields (`not phone_number`, `not amount`).
PhoneTruthy(p) == \/ p.t = "int"
                  \/ p.t = "str" /\ Len(p.s) > 0
AmountTruthy(a) == a.t # "none" /\ a.v # 0

\* The format check without its length test.
PhoneFormatOk_NoLength(p) ==
    /\ p.t = "str"
    /\ startswith(p.s, Prefix2547) \/ startswith(p.s, Prefix2541)
    /\ isdigit(p.s)

\* line 122: the phone number format check.
PhoneFormatOk(p) ==
    /\ p.t = "str"
    /\ startswith(p.s, Prefix2547) \/ startswith(p.s, Prefix2541)
    /\ Len(p.s) = PhoneLen
    /\ isdigit(p.s)

\* line 127: isinstance(amount, int) and amount > 0; bool is a subclass of int.
isinstance_int(a) == a.t \in {"int", "bool"}
\* The amount check with its comparison off by one.
AmountOk_OffByOne(a) == isinstance_int(a) /\ ~(a.v <= 1)

AmountOk(a) == isinstance_int(a) /\ ~(a.v <= 0)

-----------------------------------------------------------------------------
\* Log entries and responses.
Entry(level, text, args) == [level |-> level, text |-> text, args |-> args]

NoReplyBody == [kind |-> "none", ResponseCode |-> None, ResponseDescription |-> None,
                CheckoutRequestID |-> None, CustomerMessage |-> None]

NoResponse == [status |-> 0, success |-> None, message |-> None,
               CheckoutRequestID |-> None, ResponseCode |-> None,
               MpesaResponse |-> NoReplyBody, ResultCode |-> None, ResultDesc |-> None]

\* jsonify({"success": ..., "message": ...}), status
Failure(status, message) ==
    [NoResponse EXCEPT !.status = status, !.success = JFalse, !.message = message]

MsgRequired == "Phone number and amount are required."
MsgPhone == "Invalid Kenyan Safaricom phone number format. Must be 2547/2541XXXXXXXX."
MsgAmount == "Amount must be a positive integer."

\* lines 117-129: the response validation rejects with, NoResponse if it passes.
Validate(p, a) ==
    IF ~PhoneTruthy(p) \/ ~AmountTruthy(a) THEN Failure(400, MsgRequired)
    ELSE IF ~PhoneFormatOk(p) THEN Failure(400, MsgPhone)
    ELSE IF ~AmountOk(a) THEN Failure(400, MsgAmount)
    ELSE NoResponse

ValidateLog(p, a) ==
    IF ~PhoneTruthy(p) \/ ~AmountTruthy(a)
    THEN <<Entry("warning", "STK Push validation failed: Missing phone number or amount.", {})>>
    ELSE IF ~PhoneFormatOk(p)
    THEN <<Entry("warning", "STK Push validation failed: Invalid phone number format",
                 {<<"phone_number", ToString(p)>>})>>
    ELSE IF ~AmountOk(a)
    THEN <<Entry("warning", "STK Push validation failed: Invalid amount",
                 {<<"amount", ToString(a)>>})>>
    ELSE <<>>

-----------------------------------------------------------------------------
\* dict.get(key) and dict.get(key, default) on a field value.
Get(v) == IF v = Absent THEN None ELSE v
GetOr(v, default) == IF v = Absent THEN default ELSE v

\* Python truthiness of a JSON scalar.
Truthy(v) == v \notin {None, Absent, "", JFalse, JInt(0)}

\* base64.b64encode(s.encode('utf-8')).decode('utf-8'): an injective encoding.
b64encode(s) == "b64(" \o s \o ")"

-----------------------------------------------------------------------------
\* What a provider endpoint answers to one outbound call.
NoJson == [kind |-> "none", access_token |-> Absent]
NoAnswer == [kind |-> "none", status |-> 0, json |-> NoJson]

OAuthJsons ==
    {[kind |-> k, access_token |-> Absent] : k \in {"notjson", "array"}}
    \cup {[kind |-> "object", access_token |-> t] : t \in {Absent, "", "tok1", "tok2"}}
OAuthAnswers ==
    {[kind |-> "transport_error", status |-> 0, json |-> NoJson]}
    \cup {[kind |-> "http", status |-> st, json |-> j] : st \in {200, 304, 500}, j \in OAuthJsons}

NoReply == [kind |-> "none", status |-> 0, json |-> NoReplyBody]
ReplyJsons ==
    {[NoReplyBody EXCEPT !.kind = k] : k \in {"notjson", "array"}}
    \cup {[kind |-> "object", ResponseCode |-> rc, ResponseDescription |-> rd,
           CheckoutRequestID |-> id, CustomerMessage |-> cm] :
            rc \in {Absent, "0", "1", JInt(0)},
            rd \in {Absent, "insufficient permissions"},
            id \in {Absent, "abc", "xyz"},
            cm \in {Absent, "Request accepted for processing"}}
Replies ==
    {[kind |-> "transport_error", status |-> 0, json |-> NoReplyBody]}
    \cup {[kind |-> "http", status |-> st, json |-> j] : st \in {200, 500}, j \in ReplyJsons}

\* response.raise_for_status(): raises HTTPError for 4xx and 5xx, nothing else.
raise_for_status(status) == HttpErrorMin <= status /\ status <= HttpErrorMax

\* exception class hierarchy, as the except clauses test it
IsRequestException(cls) == cls \in {"ConnectionError", "HTTPError", "RequestsJSONDecodeError"}
IsJSONDecodeError(cls) == cls \in {"JSONDecodeError", "RequestsJSONDecodeError"}

\* requests.get/post(...); response.raise_for_status(); response.json():
\* the class of the exception raised, None when the JSON body is obtained.
HttpRaises(answer, jsonerr) ==
    IF answer.kind = "transport_error" THEN "ConnectionError"
    ELSE IF raise_for_status(answer.status) THEN "HTTPError"
    ELSE IF answer.json.kind = "notjson" THEN jsonerr
    ELSE None

\* get_access_token without response.raise_for_status().
get_access_token_NoStatusCheck(answer, jsonerr) ==
    IF answer.kind = "transport_error" THEN None
    ELSE IF answer.json.kind # "object" THEN None
    ELSE IF Truthy(Get(answer.json.access_token)) THEN Get(answer.json.access_token)
    ELSE None

\* get_access_token(), lines 37-71: its return value, given the endpoint's answer.
get_access_token(answer, jsonerr) ==
    IF HttpRaises(answer, jsonerr) # None THEN None
    ELSE IF answer.json.kind # "object" THEN None       \* result.get: AttributeError, line 69
    ELSE IF Truthy(Get(answer.json.access_token)) THEN Get(answer.json.access_token)
    ELSE None

\* the log entries get_access_token emits
get_access_token_log(answer, jsonerr) ==
    LET e == HttpRaises(answer, jsonerr) IN
    IF e # None /\ IsRequestException(e)
    THEN <<Entry("error", "Network or API error while getting access token", {<<"e", e>>})>>
    ELSE IF e # None
    THEN <<Entry("error", "Failed to decode JSON from access token response",
                 {<<"response.text", "<not json>">>})>>
    ELSE IF answer.json.kind # "object"
    THEN <<Entry("exception", "An unexpected error occurred in get_access_token.", {})>>
    ELSE IF Truthy(Get(answer.json.access_token))
    THEN <<Entry("info", "Successfully obtained M-Pesa access token.", {})>>
    ELSE <<Entry("error", "Access token not found in response",
                 {<<"access_token", answer.json.access_token>>})>>

\* The token test left out.
token_unavailable_Never(token) == FALSE

\* line 134: `if not access_token`
token_unavailable(token) == ~Truthy(token)

\* datetime.now(nairobi_tz).strftime("%Y%m%d%H%M%S") at wall-clock second `now`
strftime(now) == "2025010112000" \o ToString(now)

\* generate_mpesa_credentials(), lines 80-90
generate_password(ts) == b64encode(BUSINESS_SHORT_CODE \o PASSKEY \o ts)
generate_mpesa_credentials_log(ts) ==
    <<Entry("info", "Generated timestamp, password: [HIDDEN]", {<<"timestamp", ts>>})>>

\* lines 142-154
NoPayload ==
    [BusinessShortCode |-> None, Password |-> None, Timestamp |-> None,
     TransactionType |-> None, Amount |-> AmountNone, PartyA |-> <<>>, PartyB |-> None,
     PhoneNumber |-> <<>>, CallBackURL |-> None, AccountReference |-> None,
     TransactionDesc |-> None]
Payload(phone, amount, ts, pw) ==
    [BusinessShortCode |-> "<int " \o BUSINESS_SHORT_CODE \o ">",
     Password |-> pw,
     Timestamp |-> ts,
     TransactionType |-> TRANSACTION_TYPE,
     Amount |-> amount,
     PartyA |-> int(phone.s),
     PartyB |-> "<int " \o BUSINESS_SHORT_CODE \o ">",
     PhoneNumber |-> int(phone.s),
     CallBackURL |-> CALLBACK_URL,
     AccountReference |-> ACCOUNT_REFERENCE,
     TransactionDesc |-> TRANSACTION_DESC]

\* json.dumps(payload, indent=2): every key with its value
json_dumps_payload(p) ==
    {<<"BusinessShortCode", p.BusinessShortCode>>, <<"Password", p.Password>>,
     <<"Timestamp", p.Timestamp>>, <<"TransactionType", p.TransactionType>>,
     <<"Amount", ToString(p.Amount)>>, <<"PartyA", ToString(p.PartyA)>>,
     <<"PartyB", p.PartyB>>, <<"PhoneNumber", ToString(p.PhoneNumber)>>,
     <<"CallBackURL", p.CallBackURL>>, <<"AccountReference", p.AccountReference>>,
     <<"TransactionDesc", p.TransactionDesc>>}

\* json.dumps(stk_response): the keys the object holds, with their values
json_dumps_reply(j) ==
    {kv \in {<<"ResponseCode", j.ResponseCode>>,
             <<"ResponseDescription", j.ResponseDescription>>,
             <<"CheckoutRequestID", j.CheckoutRequestID>>,
             <<"CustomerMessage", j.CustomerMessage>>} : kv[2] # Absent}

\* line 162
payload_log(p) ==
    <<Entry("info", "Sending STK Push request to Safaricom with payload", json_dumps_payload(p))>>

MsgToken == "Failed to connect to M-Pesa. Please try again later."
MsgNetwork == "Network or API communication error: "
MsgParse == "Failed to parse M-Pesa API response."
MsgUnexpected == "An unexpected server error occurred: "
MsgInitiated == "STK Push initiated successfully! Please check your phone for the M-Pesa prompt."
MsgUnknown == "STK Push initiation failed due to an unknown M-Pesa error."

\* lines 190-198: the except clauses of initiate_stk_push, first match wins.
stk_except(cls) ==
    IF IsRequestException(cls) THEN Failure(500, MsgNetwork \o cls)
    ELSE IF IsJSONDecodeError(cls) THEN Failure(500, MsgParse)
    ELSE Failure(500, MsgUnexpected \o cls)

stk_except_log(cls) ==
    IF IsRequestException(cls)
    THEN <<Entry("error", "Network or API communication error during STK Push", {<<"e", cls>>})>>
    ELSE IF IsJSONDecodeError(cls)
    THEN <<Entry("error", "Failed to decode JSON from STK Push response",
                 {<<"response.text", "<not json>">>})>>
    ELSE <<Entry("exception", "An unexpected server error occurred during STK Push initiation.", {})>>

\* The interpretation with a fixed failure message in place of the provider's.
stk_interpret_FixedMessage(j) ==
    IF Get(j.ResponseCode) = "0"
    THEN [NoResponse EXCEPT !.status = 200, !.success = JTrue,
                            !.message = GetOr(j.CustomerMessage, MsgInitiated),
                            !.CheckoutRequestID = Get(j.CheckoutRequestID),
                            !.ResponseCode = Get(j.ResponseCode)]
    ELSE [NoResponse EXCEPT !.status = 400, !.success = JFalse,
                            !.message = MsgUnknown,
                            !.MpesaResponse = j]

\* lines 173-188: the response for a decoded JSON object
stk_interpret(j) ==
    IF Get(j.ResponseCode) = "0"
    THEN [NoResponse EXCEPT !.status = 200, !.success = JTrue,
                            !.message = GetOr(j.CustomerMessage, MsgInitiated),
                            !.CheckoutRequestID = Get(j.CheckoutRequestID),
                            !.ResponseCode = Get(j.ResponseCode)]
    ELSE [NoResponse EXCEPT !.status = 400, !.success = JFalse,
                            !.message = GetOr(j.ResponseDescription, MsgUnknown),
                            !.MpesaResponse = j]

stk_interpret_log(j) ==
    <<Entry("info", "Received STK Push response from Safaricom", json_dumps_reply(j))>>
    \o IF Get(j.ResponseCode) = "0" THEN <<>>
       ELSE <<Entry("error", "STK Push failed at Safaricom",
                    {<<"error_message", GetOr(j.ResponseDescription, MsgUnknown)>>}
                    \cup json_dumps_reply(j))>>

\* lines 165-198: the response once the payment endpoint has answered
stk_after_post(answer, jsonerr) ==
    LET e == HttpRaises(answer, jsonerr) IN
    IF e # None THEN stk_except(e)
    ELSE IF answer.json.kind # "object" THEN stk_except("AttributeError")
    ELSE stk_interpret(answer.json)

stk_after_post_log(answer, jsonerr) ==
    LET e == HttpRaises(answer, jsonerr) IN
    IF e # None THEN stk_except_log(e)
    ELSE IF answer.json.kind # "object"
    THEN <<Entry("info", "Received STK Push response from Safaricom", {})>>
         \o stk_except_log("AttributeError")
    ELSE stk_interpret_log(answer.json)

Call(method, url, auth) == [method |-> method, url |-> url, auth |-> auth]

-----------------------------------------------------------------------------
\* Inbound values of POST /api/mpesa_callback: the provider envelope
\* {Body: {stkCallback: {ResultCode, CheckoutRequestID, ResultDesc,
\*                       CallbackMetadata?: {Item: [{Name, Value}]}}}}
\* and the bodies that miss parts of it.
MetaItems ==
    {[kind |-> "object", Name |-> n, Value |-> v] :
        n \in {Absent, "MpesaReceiptNumber", "Amount", "PhoneNumber"},
        v \in {"NLJ7RT61SV", JInt(1)}}
    \cup {[kind |-> "string", Name |-> Absent, Value |-> Absent]}
ItemLists == UNION {[1..n -> MetaItems] : n \in 0..MaxItems}
NoItem == [kind |-> "absent", items |-> <<>>]
ItemValues ==
    {NoItem, [kind |-> "null", items |-> <<>>]}
    \cup {[kind |-> "list", items |-> l] : l \in ItemLists}
NoMeta == [kind |-> "absent", Item |-> NoItem]
MetaValues ==
    {NoMeta, [kind |-> "null", Item |-> NoItem]}
    \cup {[kind |-> "object", Item |-> i] : i \in ItemValues}
\* the empty dict that .get("stkCallback", {}) defaults to
EmptyStk == [kind |-> "absent", ResultCode |-> Absent, CheckoutRequestID |-> Absent,
             ResultDesc |-> Absent, CallbackMetadata |-> NoMeta]
StkValues ==
    {EmptyStk, [EmptyStk EXCEPT !.kind = "null"]}
    \cup {[kind |-> "object", ResultCode |-> rc, CheckoutRequestID |-> id,
           ResultDesc |-> rd, CallbackMetadata |-> m] :
            rc \in {Absent, JInt(0), JInt(1), JInt(1032), "0", JFalse},
            id \in {Absent, "abc"},
            rd \in {Absent, "Request cancelled by user"},
            m \in MetaValues}
NoEnvelope == [kind |-> "absent", stkCallback |-> EmptyStk]
BodyValues ==
    {NoEnvelope, [kind |-> "null", stkCallback |-> EmptyStk]}
    \cup {[kind |-> "object", stkCallback |-> k] : k \in StkValues}
NoCallback == [kind |-> "none", Body |-> NoEnvelope]
Callbacks ==
    {[kind |-> k, Body |-> NoEnvelope] : k \in {"notjson", "null", "array"}}
    \cup {[kind |-> "object", Body |-> b] : b \in BodyValues}

\* Python's `result_code == 0`: the integer 0, and False, which equals 0.
EqualsZero(v) == v \in {JInt(0), JFalse}

\* line 212: callback_data.get("Body", {}).get("stkCallback", {})
stk_callback(c) ==
    IF c.Body.kind = "absent" THEN EmptyStk ELSE c.Body.stkCallback

\* lines 223-225: the loop that projects the Item list into item_details;
\* a later item overrides an earlier one of the same Name.
RECURSIVE project_items(_, _)
project_items(items, n) ==
    IF n = 0 THEN <<>>
    ELSE (Get(items[n].Name) :> Get(items[n].Value)) @@ project_items(items, n - 1)

\* dict.get on item_details
details_get(d, key) == IF key \in DOMAIN d THEN d[key] ELSE None

\* The extraction with callback_data["Body"]["stkCallback"] in place of the
\* .get(..., {}) defaults: a missing key raises KeyError.
callback_raises_NoDefault(c) ==
    IF c.kind = "notjson" THEN "BadRequest"
    ELSE IF c.kind \in {"null", "array"} THEN "AttributeError"
    ELSE IF c.Body.kind = "absent" THEN "KeyError"
    ELSE IF c.Body.kind = "null" THEN "AttributeError"
    ELSE IF c.Body.stkCallback.kind = "absent" THEN "KeyError"
    ELSE IF c.Body.stkCallback.kind = "null" THEN "AttributeError"
    ELSE None

\* lines 208-225: the class of the exception raised inside the try block, None if none.
callback_raises(c) ==
    IF c.kind = "notjson" THEN "BadRequest"                     \* request.get_json()
    ELSE IF c.kind \in {"null", "array"} THEN "AttributeError"  \* callback_data.get
    ELSE IF c.Body.kind = "null" THEN "AttributeError"          \* None.get("stkCallback")
    ELSE IF stk_callback(c).kind = "null" THEN "AttributeError" \* None.get("ResultCode")
    ELSE IF ~EqualsZero(Get(stk_callback(c).ResultCode)) THEN None
    ELSE LET m == stk_callback(c).CallbackMetadata IN
         IF m.kind = "null" THEN "AttributeError"               \* None.get("Item")
         ELSE IF m.Item.kind = "null" THEN "TypeError"          \* for item in None
         ELSE IF \E i \in 1..Len(m.Item.items) : m.Item.items[i].kind # "object"
              THEN "AttributeError"                             \* item.get on a str
         ELSE None

\* lines 222-225
callback_item_details(c) ==
    IF callback_raises(c) = None /\ EqualsZero(Get(stk_callback(c).ResultCode))
    THEN LET l == stk_callback(c).CallbackMetadata.Item.items IN project_items(l, Len(l))
    ELSE <<>>

\* jsonify({"ResultCode": ..., "ResultDesc": ...}), status
Ack(status, code, desc) ==
    [NoResponse EXCEPT !.status = status, !.ResultCode = code, !.ResultDesc = desc]

\* The acknowledgement made to depend on the payment's result code.
mpesa_callback_response_EchoResult(c) ==
    IF callback_raises(c) # None
    THEN Ack(500, JInt(1), "Failed to process callback: " \o callback_raises(c))
    ELSE IF EqualsZero(Get(stk_callback(c).ResultCode))
    THEN Ack(200, JInt(0), "Callback received successfully")
    ELSE Ack(400, JInt(1), "Payment failed")

\* lines 253 and 260
mpesa_callback_response(c) ==
    IF callback_raises(c) = None
    THEN Ack(200, JInt(0), "Callback received successfully")
    ELSE Ack(500, JInt(1), "Failed to process callback: " \o callback_raises(c))

\* the log entries of lines 209-256
mpesa_callback_log(c) ==
    LET k == stk_callback(c)
        d == callback_item_details(c)
        received == IF c.kind = "notjson" THEN <<>>
                    ELSE <<Entry("info", "Received M-Pesa Callback",
                                 {<<"callback_data", ToString(c)>>})>>
        parsed == c.kind = "object" /\ c.Body.kind # "null" /\ k.kind # "null"
        branch ==
            IF ~parsed THEN <<>>
            ELSE IF EqualsZero(Get(k.ResultCode))
            THEN <<Entry("info", "M-Pesa STK Push successful for CheckoutRequestID",
                         {<<"CheckoutRequestID", Get(k.CheckoutRequestID)>>})>>
                 \o IF callback_raises(c) # None THEN <<>>
                    ELSE <<Entry("info", "Payment Details",
                                 {<<"Receipt", details_get(d, "MpesaReceiptNumber")>>,
                                  <<"Amount", details_get(d, "Amount")>>,
                                  <<"Phone", details_get(d, "PhoneNumber")>>,
                                  <<"Date", details_get(d, "TransactionDate")>>})>>
            ELSE <<Entry("warning", "M-Pesa STK Push Failed/Cancelled",
                         {<<"ResultCode", Get(k.ResultCode)>>,
                          <<"ResultDesc", Get(k.ResultDesc)>>,
                          <<"CheckoutRequestID", Get(k.CheckoutRequestID)>>})>>
        failed == IF callback_raises(c) = None THEN <<>>
                  ELSE <<Entry("exception",
                               "An unexpected error occurred while processing M-Pesa callback.", {})>>
    IN received \o branch \o failed

-----------------------------------------------------------------------------
Init ==
    /\ pc = "idle"
    /\ handler = None
    /\ requests_json_error \in {"JSONDecodeError", "RequestsJSONDecodeError"}
    /\ body = NoBody
    /\ cb = NoCallback
    /\ oauth = NoAnswer
    /\ access_token = None
    /\ timestamp = None
    /\ password = None
    /\ payload = NoPayload
    /\ reply = NoReply
    /\ item_details = <<>>
    /\ calls = <<>>
    /\ log = <<>>
    /\ response = NoResponse
    /\ raised = None

\* initiate_stk_push, lines 109-129: read the inbound body and validate it.
initiate_stk_push_validate ==
    /\ pc = "idle"
    /\ \E b \in Bodies :
        /\ body' = b
        /\ handler' = "initiate_stk_push"
        /\ IF b.kind = "notjson"
           THEN \* request.get_json() raises outside any try block
                /\ raised' = "BadRequest"
                /\ pc' = "done"
                /\ UNCHANGED <<log, response>>
           ELSE IF b.kind \in {"null", "array"}
           THEN \* data.get raises AttributeError outside any try block
                /\ raised' = "AttributeError"
                /\ pc' = "done"
                /\ UNCHANGED <<log, response>>
           ELSE /\ raised' = None
                /\ log' = <<Entry("info", "Received STK Push request from frontend",
                                  {<<"phone_number", ToString(b.phoneNumber)>>,
                                   <<"amount", ToString(b.amount)>>})>>
                           \o ValidateLog(b.phoneNumber, b.amount)
                /\ response' = Validate(b.phoneNumber, b.amount)
                /\ pc' = IF response'.status = 0 THEN "token" ELSE "done"
    /\ UNCHANGED <<requests_json_error, cb, oauth, access_token, timestamp, password,
                   payload, reply, item_details, calls>>

\* initiate_stk_push, line 133: the call of get_access_token (lines 32-71).
initiate_stk_push_token ==
    /\ pc = "token"
    /\ \E answer \in OAuthAnswers :
        /\ oauth' = answer
        /\ calls' = Append(calls, Call("GET", OAUTH_URL,
                        "Basic " \o b64encode(CONSUMER_KEY \o ":" \o CONSUMER_SECRET)))
        /\ access_token' = get_access_token(answer, requests_json_error)
        /\ log' = log \o get_access_token_log(answer, requests_json_error)
    /\ pc' = "prepare"
    /\ UNCHANGED <<handler, requests_json_error, body, cb, timestamp, password, payload,
                   reply, item_details, response, raised>>

\* initiate_stk_push, lines 134-162: fail fast without a token, else generate the
\* credentials, build the payload and log it.
initiate_stk_push_prepare ==
    /\ pc = "prepare"
    /\ IF token_unavailable(access_token)
       THEN /\ log' = Append(log, Entry("error",
                        "STK Push failed: Could not obtain M-Pesa access token.", {}))
            /\ response' = Failure(500, MsgToken)
            /\ pc' = "done"
            /\ UNCHANGED <<timestamp, password, payload>>
       ELSE \E now \in 0..MaxClock :
            /\ timestamp' = strftime(now)
            /\ password' = generate_password(timestamp')
            /\ IF int_raises(body.phoneNumber.s)
               THEN \* int(phone_number) raises ValueError while the dict is built
                    /\ log' = log \o generate_mpesa_credentials_log(timestamp')
                                  \o stk_except_log("ValueError")
                    /\ response' = stk_except("ValueError")
                    /\ pc' = "done"
                    /\ UNCHANGED payload
               ELSE /\ payload' = Payload(body.phoneNumber, body.amount, timestamp', password')
                    /\ log' = log \o generate_mpesa_credentials_log(timestamp')
                                  \o payload_log(payload')
                    /\ pc' = "post"
                    /\ UNCHANGED response
    /\ UNCHANGED <<handler, requests_json_error, body, cb, oauth, access_token, reply,
                   item_details, calls, raised>>

\* initiate_stk_push, lines 165-198: POST the payload and interpret the answer.
initiate_stk_push_post ==
    /\ pc = "post"
    /\ \E answer \in Replies :
        /\ reply' = answer
        /\ calls' = Append(calls, Call("POST", STKPUSH_URL, "Bearer " \o access_token))
        /\ response' = stk_after_post(answer, requests_json_error)
        /\ log' = log \o stk_after_post_log(answer, requests_json_error)
    /\ pc' = "done"
    /\ UNCHANGED <<handler, requests_json_error, body, cb, oauth, access_token, timestamp,
                   password, payload, item_details, raised>>

\* mpesa_callback, lines 207-260.
mpesa_callback ==
    /\ pc = "idle"
    /\ \E c \in Callbacks :
        /\ cb' = c
        /\ item_details' = callback_item_details(c)
        /\ log' = mpesa_callback_log(c)
        /\ response' = mpesa_callback_response(c)
    /\ handler' = "mpesa_callback"
    /\ raised' = None
    /\ pc' = "done"
    /\ UNCHANGED <<requests_json_error, body, oauth, access_token, timestamp, password,
                   payload, reply, calls>>

\* The worker has answered and waits for the next inbound request.
Return ==
    /\ pc = "done"
    /\ pc' = "idle"
    /\ handler' = None
    /\ body' = NoBody
    /\ cb' = NoCallback
    /\ oauth' = NoAnswer
    /\ access_token' = None
    /\ timestamp' = None
    /\ password' = None
    /\ payload' = NoPayload
    /\ reply' = NoReply
    /\ item_details' = <<>>
    /\ calls' = <<>>
    /\ log' = <<>>
    /\ response' = NoResponse
    /\ raised' = None
    /\ UNCHANGED requests_json_error

Next ==
    \/ initiate_stk_push_validate
    \/ initiate_stk_push_token
    \/ initiate_stk_push_prepare
    \/ initiate_stk_push_post
    \/ mpesa_callback
    \/ Return

Spec == Init /\ [][Next]_vars

-----------------------------------------------------------------------------
\* The invocation in progress is one of initiate_stk_push / mpesa_callback.
InStk == handler = "initiate_stk_push"
InCallback == handler = "mpesa_callback"

\* A phone value as the specification classifies it, stated without the code's
\* helpers: a string of exactly PhoneLen numeric characters that begins with
\* one of the two prefixes.
NumericChar(c) == c \notin NonDigits
HasValidPrefix(s) ==
    /\ Len(s) >= PrefixLen
    /\ \/ \A i \in 1..PrefixLen : s[i] = Prefix2547[i]
       \/ \A i \in 1..PrefixLen : s[i] = Prefix2541[i]
SpecPhoneValid(p) ==
    /\ p.t = "str"
    /\ Len(p.s) = PhoneLen
    /\ \A i \in 1..Len(p.s) : NumericChar(p.s[i])
    /\ HasValidPrefix(p.s)
SpecAmountValid(a) == a.t = "int" /\ a.v > 0

ValidationMessages == {MsgRequired, MsgPhone, MsgAmount}
RejectedByValidation ==
    /\ pc = "done"
    /\ response.status = 400
    /\ response.success = JFalse
    /\ response.message \in ValidationMessages
    /\ calls = <<>>
    /\ oauth = NoAnswer

\* Values that must never reach the log.
SecretValues ==
    {CONSUMER_KEY, CONSUMER_SECRET, PASSKEY,
     b64encode(CONSUMER_KEY \o ":" \o CONSUMER_SECRET)}
Logged == UNION {{kv[2] : kv \in log[i].args} : i \in 1..Len(log)}

\* C1: no log entry of an invocation contains the derived password
\* (Base64 of shortcode+passkey+timestamp) or a static secret value.
C1_NoSecretInLog ==
    /\ Logged \cap SecretValues = {}
    /\ password # None => password \notin Logged

C3_InvalidAmountRejected ==
    (InStk /\ body.kind = "object" /\ ~SpecAmountValid(body.amount))
        => RejectedByValidation

\* C4: a valid phone with a positive integer amount is not rejected by
\* validation: the invocation proceeds to get_access_token.
C4_ValidProceeds ==
    (InStk /\ body.kind = "object" /\ SpecPhoneValid(body.phoneNumber)
           /\ SpecAmountValid(body.amount))
        => /\ raised = None
           /\ response.message \notin ValidationMessages
           /\ \/ pc = "token"
              \/ /\ pc \in {"prepare", "post", "done"}
                 /\ Len(calls) >= 1
                 /\ calls[1] = Call("GET", OAUTH_URL,
                        "Basic " \o b64encode(CONSUMER_KEY \o ":" \o CONSUMER_SECRET))
                 /\ oauth # NoAnswer

C4_Witness ==
    /\ InStk /\ pc = "prepare"
    /\ SpecPhoneValid(body.phoneNumber)
    /\ body.phoneNumber.s[PhoneLen] = "ar3"
    /\ body.amount = [t |-> "int", v |-> MaxAmount]
    /\ Len(calls) = 1

\* get_access_token has returned in this invocation.
TokenFetched == InStk /\ oauth.kind # "none"
Is2xx(status) == 200 <= status /\ status <= 299

\* C5 (as stated): the access_token value is returned unchanged for a 2xx JSON
\* body containing the field, and None is returned on a transport error, a
\* non-2xx status, a non-JSON body, or a JSON body missing the field.
C5_TokenOrNone ==
    TokenFetched =>
        /\ (oauth.kind = "http" /\ Is2xx(oauth.status) /\ oauth.json.kind = "object"
              /\ oauth.json.access_token # Absent)
             => access_token = oauth.json.access_token
        /\ (\/ oauth.kind = "transport_error"
            \/ oauth.kind = "http" /\ ~Is2xx(oauth.status)
            \/ oauth.json.kind = "notjson"
            \/ oauth.json.kind = "object" /\ oauth.json.access_token = Absent)
             => access_token = None

\* C5 (amended): the access_token value is returned unchanged for a 2xx JSON
\* body holding a non-empty value in the field, and None is returned on a
\* transport error, a 4xx/5xx status, a non-JSON body, or a JSON body whose
\* field is missing or empty.
C5_TokenOrNoneAmended ==
    TokenFetched =>
        /\ (oauth.kind = "http" /\ Is2xx(oauth.status) /\ oauth.json.kind = "object"
              /\ oauth.json.access_token \notin {Absent, ""})
             => access_token = oauth.json.access_token
        /\ (\/ oauth.kind = "transport_error"
            \/ oauth.kind = "http" /\ oauth.status >= 400 /\ oauth.status <= 599
            \/ oauth.json.kind = "notjson"
            \/ oauth.json.kind = "object" /\ oauth.json.access_token \in {Absent, ""})
             => access_token = None

C5_Witness ==
    /\ TokenFetched
    /\ oauth.status = 200
    /\ oauth.json.access_token = "tok2"
    /\ access_token = "tok2"

\* The payment endpoint answered this invocation with a 2xx JSON object.
ReplyObject ==
    /\ InStk /\ pc = "done"
    /\ reply.kind = "http" /\ Is2xx(reply.status) /\ reply.json.kind = "object"

\* C6: after a 2xx JSON reply, ResponseCode "0" gives HTTP 200 / success true
\* with the reply's CheckoutRequestID unchanged; any other ResponseCode gives
\* HTTP 400 / success false whose message is the reply's ResponseDescription.
C6_ReplyInterpreted ==
    ReplyObject =>
        /\ reply.json.ResponseCode = "0"
             => /\ response.status = 200
                /\ response.success = JTrue
                /\ response.CheckoutRequestID = Get(reply.json.CheckoutRequestID)
        /\ reply.json.ResponseCode # "0"
             => /\ response.status = 400
                /\ response.success = JFalse
                /\ reply.json.ResponseDescription # Absent
                     => response.message = reply.json.ResponseDescription

C6_Witness ==
    /\ ReplyObject
    /\ reply.json.ResponseCode = "1"
    /\ reply.json.ResponseDescription = "insufficient permissions"
    /\ response.status = 400
    /\ response.message = "insufficient permissions"

\* The callback body carries the provider envelope: Body.stkCallback with a
\* ResultCode and, optionally, CallbackMetadata holding a list of items.
ProviderEnvelope(c) ==
    /\ c.kind = "object"
    /\ c.Body.kind = "object"
    /\ c.Body.stkCallback.kind = "object"
    /\ c.Body.stkCallback.ResultCode # Absent
    /\ LET m == c.Body.stkCallback.CallbackMetadata IN
       \/ m.kind = "absent"
       \/ /\ m.kind = "object"
          /\ m.Item.kind \in {"absent", "list"}
          /\ \A i \in 1..Len(m.Item.items) : m.Item.items[i].kind = "object"

\* C7: every callback carrying the provider envelope is acknowledged with
\* HTTP 200 and {ResultCode: 0}, whatever its ResultCode and with or without
\* CallbackMetadata.
C7_AlwaysAcknowledged ==
    (InCallback /\ pc = "done" /\ ProviderEnvelope(cb))
        => /\ raised = None
           /\ response.status = 200
           /\ response.ResultCode = JInt(0)

C7_Witness ==
    /\ InCallback /\ pc = "done" /\ ProviderEnvelope(cb)
    /\ cb.Body.stkCallback.ResultCode = JInt(1032)
    /\ cb.Body.stkCallback.CallbackMetadata.kind = "absent"
    /\ response.status = 200

\* The callback body misses the nested Body/stkCallback envelope.
KeyMissing(c) ==
    /\ c.kind = "object"
    /\ \/ c.Body.kind = "absent"
       \/ c.Body.kind = "object" /\ c.Body.stkCallback.kind = "absent"
EnvelopeMissing(c) ==
    \/ c.kind \in {"notjson", "null", "array"}
    \/ c.Body.kind \in {"absent", "null"}
    \/ c.Body.stkCallback.kind \in {"absent", "null"}

\* C8 (as stated): a callback body missing the Body/stkCallback envelope
\* raises nothing past the handler and gets the failure acknowledgement
\* {ResultCode: 1}.
C8_MalformedFailureAck ==
    (InCallback /\ pc = "done" /\ EnvelopeMissing(cb))
        => /\ raised = None
           /\ response.ResultCode = JInt(1)

\* C8 (amended): a callback body missing the envelope raises nothing past the
\* handler; it gets the failure acknowledgement {ResultCode: 1} (HTTP 500)
\* when it is not a JSON object or holds null for Body or stkCallback, and the
\* success acknowledgement {ResultCode: 0} (HTTP 200) when it is a JSON object
\* that lacks the Body or stkCallback key.
C8_MalformedAckAmended ==
    (InCallback /\ pc = "done" /\ EnvelopeMissing(cb))
        => /\ raised = None
           /\ IF KeyMissing(cb)
              THEN response.status = 200 /\ response.ResultCode = JInt(0)
              ELSE response.status = 500 /\ response.ResultCode = JInt(1)

C8_Witness ==
    /\ InCallback /\ pc = "done"
    /\ cb.kind = "object" /\ cb.Body.kind = "null"
    /\ response.status = 500
    /\ response.ResultCode = JInt(1)

\* C9: in initiate_stk_push a transport failure, a JSON parse failure and any
\* other unexpected exception each give an HTTP 500 / success false response of
\* their own kind, and no exception leaves the handler, the reading of the
\* inbound body included.
C9_NoEscapeDistinctErrors ==
    (InStk /\ pc = "done")
        => /\ raised = None
           /\ reply.kind = "transport_error"
                => /\ response.status = 500 /\ response.success = JFalse
                   /\ response.message = MsgNetwork \o "ConnectionError"
           /\ (reply.kind = "http" /\ ~raise_for_status(reply.status)
                 /\ reply.json.kind = "notjson")
                => /\ response.status = 500 /\ response.success = JFalse
                   /\ response.message = MsgParse
           /\ (reply.kind = "http" /\ ~raise_for_status(reply.status)
                 /\ reply.json.kind = "array")
                => /\ response.status = 500 /\ response.success = JFalse
                   /\ response.message = MsgUnexpected \o "AttributeError"

\* C10: one invocation issues at most one token GET and at most one payment
\* POST, the POST only after the GET returned a token; without a token it
\* answers HTTP 500 and issues no POST; a failed call ends the invocation with
\* an error response and no second attempt.
C10_OrderedNoRetry ==
    /\ Len(calls) <= 2
    /\ Len(calls) >= 1 => calls[1].method = "GET" /\ calls[1].url = OAUTH_URL
    /\ Len(calls) = 2
         => /\ calls[2].method = "POST" /\ calls[2].url = STKPUSH_URL
            /\ oauth.kind = "http"
            /\ access_token \notin {None, ""}
            /\ access_token = oauth.json.access_token
            /\ calls[2].auth = "Bearer " \o access_token
    /\ (TokenFetched /\ access_token = None)
         => /\ pc \in {"prepare", "done"}
            /\ Len(calls) = 1
            /\ pc = "done" => response.status = 500 /\ response.success = JFalse
    /\ (InStk /\ pc = "done" /\ reply.kind # "none"
          /\ HttpRaises(reply, requests_json_error) # None)
         => /\ Len(calls) = 2
            /\ response.status = 500 /\ response.success = JFalse

C10_Witness ==
    /\ InStk /\ pc = "done"
    /\ Len(calls) = 2
    /\ reply.kind = "transport_error"
    /\ response.status = 500
====
